---- MODULE Spec2Model ----
(***************************************************************************)
(* Model of LandCover_by_Watershed.py: a single-pass script that loads a   *)
(* class-remap CSV, then runs a fixed sequence of geoprocessing calls      *)
(* inside one try block with two except clauses.                           *)
(*                                                                         *)
(* The geoprocessing engine is the environment: every call into it either  *)
(* returns its documented result or raises ExecuteError; the subscript on  *)
(* the dictionary Describe returns (line 146) may also raise KeyError.     *)
(* An exception outside the try block ends the process where it is raised. *)
(***************************************************************************)
EXTENDS Integers, Sequences, FiniteSets, TLC

VARIABLES
    pc,                 \* position of the script
    clock,              \* index of the current day in Days (environment)
    today,              \* line 59
    reader,             \* line 63: the rows csv.reader yields while the file is open
    class_map,          \* line 64
    wshed_poly,         \* parameter 1: the set of input watershed ids
    nlcd_poly,          \* Temp_NLCD_Polygon: sequence of polygon rows
    ucurs,              \* index of the row the update cursor is at
    artifacts,          \* datasets written under outgdb during this run
    summary,            \* result of SummarizeWithin: [fc, table]
    shed_stats_table,   \* rows of the joined layer (AddJoin)
    input_wshedfc_name, \* line 146
    shed_stat_table,    \* the final output table: [created, name, cols, rows]
    messages,           \* everything sent to the invoking interface, in order
    steps,              \* the pipeline statements started, in order
    exc,                \* the exception in flight / last raised
    outcome             \* how the run ended

vars == <<pc, clock, today, reader, class_map, wshed_poly, nlcd_poly,
          ucurs, artifacts, summary, shed_stats_table, input_wshedfc_name,
          shed_stat_table, messages, steps, exc, outcome>>

-----------------------------------------------------------------------------
(* Bounds *)

MaxRows == 2
MaxPolys == 2

-----------------------------------------------------------------------------
(* Input universes *)

ClassNames == {"41", "21"}
GroupNames == {"Forest", "Developed"}
Watersheds == {"w1", "w2"}
BaseNames == {"Sub1", "Example_Watershed"}
Days == << [y |-> 2021, m |-> 9, d |-> 8],
           [y |-> 2021, m |-> 12, d |-> 31] >>

SeqsUpTo(S, n) == UNION {[1..k -> S] : k \in 0..n}

\* Rows as csv.reader yields them: a list of 0, 1, 2 or 3 fields.
CsvRows ==
    {<<>>}
    \cup {<<a>> : a \in ClassNames}
    \cup {<<a, g>> : a \in ClassNames, g \in GroupNames}
    \cup {<<a, g, "note">> : a \in ClassNames, g \in GroupNames}

NoValue == "<unset>"
Null == "<Null>"
NoExc == [etype |-> "", loc |-> "", evalue |-> ""]
EmptyMap == [k \in {} |-> ""]
NoTable == [created |-> FALSE, name |-> "", cols |-> {}, rows |-> {}]
NoSummary == [fc |-> {}, table |-> {}]

-----------------------------------------------------------------------------
(* Parameters that the script fixes *)

new_class_field == "NewClass"
\* variant: the other value of keep_all_polygons
KeepAllPolygons_only == "ONLY_INTERSECTING"
KeepAllPolygons == "KEEP_ALL"
JoinType == "KEEP_ALL"

\* variant: a drop list that misses one of the joined duplicates
DropField_short == {"sum_Area_SQUAREFEET", "Polygon_Count", "Join_ID", "OBJECTID",
                    "sum_Area_SQUAREFEET_1", "Polygon_Count_1"}

DropField == {"sum_Area_SQUAREFEET", "Polygon_Count", "Join_ID", "OBJECTID",
              "Join_ID_1", "sum_Area_SQUAREFEET_1", "Polygon_Count_1"}

MsgClipped == "NLCD dataset clipped to watersheds."
MsgConverted == "NLCD raster converted to multipart polygon feature class."
MsgGrouped == "NLCD classes have been grouped to new values."
MsgComputed == "Percent cover by type and by watershed have been computed."
MsgGenerating == "Generating clean output."
MsgRemoving == "Removing superfluous fields."
MsgUnmapped == "An NLCD class in the data was not found in the CSV, so reclassficiation could not occur. Ensure CSV is up to date."

-----------------------------------------------------------------------------
(* Pure helpers *)

Pad2(n) == IF n < 10 THEN "0" \o ToString(n) ELSE ToString(n)

\* variant: strftime without zero padding of month and day
Strftime_nopad(day) == ToString(day.y) \o ToString(day.m) \o ToString(day.d)

\* datetime.strftime('%Y%m%d')
Strftime(day) == ToString(day.y) \o Pad2(day.m) \o Pad2(day.d)

\* variant: a dict that keeps the first value stored under a key
DictSet_keepFirst(m, k, v) ==
    IF k \in DOMAIN m THEN m
    ELSE [x \in DOMAIN m \cup {k} |-> IF x = k THEN v ELSE m[x]]

\* d[k] = v on a dict
DictSet(m, k, v) == [x \in DOMAIN m \cup {k} |-> IF x = k THEN v ELSE m[x]]

RECURSIVE BuildMap(_, _)
\* {row[0]: row[1] for row in rows}, rows taken in file order
BuildMap(rows, m) ==
    IF rows = <<>> THEN m
    ELSE BuildMap(Tail(rows), DictSet(m, Head(rows)[1], Head(rows)[2]))

\* variant: a loader that skips the rows it cannot index
LoadClassMap_skipShort(rows) ==
    [raised |-> NoExc, map |-> BuildMap(SelectSeq(rows, LAMBDA row : Len(row) >= 2), EmptyMap)]

\* line 64: the dict comprehension over the reader
LoadClassMap(rows) ==
    IF \E i \in 1..Len(rows) : Len(rows[i]) < 2
    THEN [raised |-> [etype |-> "IndexError", loc |-> "line 64", evalue |-> "list index out of range"],
          map |-> EmptyMap]
    ELSE [raised |-> NoExc, map |-> BuildMap(rows, EmptyMap)]

AddMessage(log, text) == Append(log, [kind |-> "info", text |-> text])
AddError(log, text) == Append(log, [kind |-> "error", text |-> text])

ExecuteError(loc) == [etype |-> "ExecuteError", loc |-> loc, evalue |-> "ERROR 999999"]

-----------------------------------------------------------------------------
Init ==
    /\ pc = "start"
    /\ clock \in 1..Len(Days)
    /\ today = NoValue
    /\ reader = <<>>
    /\ class_map = EmptyMap
    /\ wshed_poly \in SUBSET Watersheds
    /\ nlcd_poly = <<>>
    /\ ucurs = 0
    /\ artifacts = {}
    /\ summary = NoSummary
    /\ shed_stats_table = {}
    /\ input_wshedfc_name = NoValue
    /\ shed_stat_table = NoTable
    /\ messages = <<>>
    /\ steps = <<>>
    /\ exc = NoExc
    /\ outcome = "running"

\* line 59
Startup ==
    /\ pc = "start"
    /\ today' = Strftime(Days[clock])
    /\ pc' = "open"
    /\ UNCHANGED <<clock, reader, class_map, wshed_poly, nlcd_poly,
                   ucurs, artifacts, summary, shed_stats_table, input_wshedfc_name,
                   shed_stat_table, messages, steps, exc, outcome>>

\* lines 62-63, outside the try block: an exception here is not caught
OpenCsv ==
    /\ pc = "open"
    /\ \/ /\ \E rows \in SeqsUpTo(CsvRows, MaxRows) : reader' = rows
          /\ pc' = "load"
          /\ UNCHANGED <<exc, outcome>>
       \/ /\ exc' = [etype |-> "FileNotFoundError", loc |-> "line 62", evalue |-> "No such file or directory"]
          /\ pc' = "done"
          /\ outcome' = "uncaught"
          /\ UNCHANGED reader
    /\ UNCHANGED <<clock, today, class_map, wshed_poly, nlcd_poly,
                   ucurs, artifacts, summary, shed_stats_table, input_wshedfc_name,
                   shed_stat_table, messages, steps>>

\* line 64, outside the try block: an exception here is not caught and ends
\* the process where it is raised
LoadMapping ==
    /\ pc = "load"
    /\ LET r == LoadClassMap(reader) IN
         IF r.raised # NoExc
         THEN /\ exc' = r.raised
              /\ pc' = "done"
              /\ outcome' = "uncaught"
              /\ UNCHANGED class_map
         ELSE /\ class_map' = r.map
              /\ pc' = "close"
              /\ UNCHANGED <<exc, outcome>>
    /\ UNCHANGED <<clock, today, reader, wshed_poly, nlcd_poly,
                   ucurs, artifacts, summary, shed_stats_table, input_wshedfc_name,
                   shed_stat_table, messages, steps>>

\* the end of the with block of line 62: the file is closed, the reader is gone
CloseCsv ==
    /\ pc = "close"
    /\ reader' = <<>>
    /\ pc' = "buffer"
    /\ UNCHANGED <<clock, today, class_map, wshed_poly, nlcd_poly,
                   ucurs, artifacts, summary, shed_stats_table, input_wshedfc_name,
                   shed_stat_table, messages, steps, exc, outcome>>

\* an exception raised inside the try block transfers control to the except clauses
Raise(e) ==
    /\ exc' = e
    /\ pc' = "except"

\* lines 77-80
Buffer ==
    /\ pc = "buffer"
    /\ steps' = Append(steps, "Buffer")
    /\ \/ pc' = "clip" /\ UNCHANGED exc
       \/ Raise(ExecuteError("line 77"))
    /\ UNCHANGED <<clock, today, reader, class_map, wshed_poly, nlcd_poly,
                   ucurs, artifacts, summary, shed_stats_table, input_wshedfc_name,
                   shed_stat_table, messages, outcome>>

\* lines 82-89
Clip ==
    /\ pc = "clip"
    /\ steps' = Append(steps, "Clip")
    /\ \/ /\ artifacts' = artifacts \cup {"Temp_NLCD_WShed_Clip"}
          /\ messages' = AddMessage(messages, MsgClipped)
          /\ pc' = "vectorize"
          /\ UNCHANGED exc
       \/ /\ Raise(ExecuteError("line 82"))
          /\ UNCHANGED <<artifacts, messages>>
    /\ UNCHANGED <<clock, today, reader, class_map, wshed_poly, nlcd_poly,
                   ucurs, summary, shed_stats_table, input_wshedfc_name,
                   shed_stat_table, outcome>>

\* one row of the RasterToPolygon output: the original class label and the
\* watersheds the polygon overlaps
PolyRows == [old : ClassNames, new : {NoValue}, covers : SUBSET wshed_poly]

\* lines 92-98
RasterToPolygon ==
    /\ pc = "vectorize"
    /\ steps' = Append(steps, "RasterToPolygon")
    /\ \/ /\ \E polys \in SeqsUpTo(PolyRows, MaxPolys) : nlcd_poly' = polys
          /\ artifacts' = artifacts \cup {"Temp_NLCD_Polygon"}
          /\ messages' = AddMessage(messages, MsgConverted)
          /\ pc' = "addfield"
          /\ UNCHANGED exc
       \/ /\ Raise(ExecuteError("line 92"))
          /\ UNCHANGED <<nlcd_poly, artifacts, messages>>
    /\ UNCHANGED <<clock, today, reader, class_map, wshed_poly,
                   ucurs, summary, shed_stats_table, input_wshedfc_name,
                   shed_stat_table, outcome>>

\* lines 101-105
AddField ==
    /\ pc = "addfield"
    /\ steps' = Append(steps, "AddField")
    /\ \/ /\ nlcd_poly' = [i \in DOMAIN nlcd_poly |-> [nlcd_poly[i] EXCEPT !.new = Null]]
          /\ pc' = "cursor"
          /\ UNCHANGED exc
       \/ /\ Raise(ExecuteError("line 101"))
          /\ UNCHANGED nlcd_poly
    /\ UNCHANGED <<clock, today, reader, class_map, wshed_poly,
                   ucurs, artifacts, summary, shed_stats_table, input_wshedfc_name,
                   shed_stat_table, messages, outcome>>

\* line 108
UpdateCursor ==
    /\ pc = "cursor"
    /\ steps' = Append(steps, "UpdateCursor")
    /\ \/ /\ ucurs' = 1
          /\ pc' = "reclass"
          /\ UNCHANGED exc
       \/ /\ Raise(ExecuteError("line 108"))
          /\ UNCHANGED ucurs
    /\ UNCHANGED <<clock, today, reader, class_map, wshed_poly, nlcd_poly,
                   artifacts, summary, shed_stats_table, input_wshedfc_name,
                   shed_stat_table, messages, outcome>>

\* variant: class_map.get(old_class), which yields None for a missing key
Lookup_default(m, k) ==
    [raised |-> NoExc, value |-> IF k \in DOMAIN m THEN m[k] ELSE Null]

\* line 110: class_map[old_class]
Lookup(m, k) ==
    IF k \in DOMAIN m
    THEN [raised |-> NoExc, value |-> m[k]]
    ELSE [raised |-> [etype |-> "KeyError", loc |-> "line 110", evalue |-> k], value |-> Null]

\* lines 109-111: one iteration of the cursor loop
ReclassRow ==
    /\ pc = "reclass"
    /\ ucurs <= Len(nlcd_poly)
    /\ LET r == Lookup(class_map, nlcd_poly[ucurs].old) IN
         IF r.raised # NoExc
         THEN /\ Raise(r.raised)
              /\ UNCHANGED <<nlcd_poly, ucurs>>
         ELSE \/ /\ nlcd_poly' = [nlcd_poly EXCEPT ![ucurs].new = r.value]
                 /\ ucurs' = ucurs + 1
                 /\ UNCHANGED <<pc, exc>>
              \/ /\ Raise(ExecuteError("line 111"))
                 /\ UNCHANGED <<nlcd_poly, ucurs>>
    /\ UNCHANGED <<clock, today, reader, class_map, wshed_poly,
                   artifacts, summary, shed_stats_table, input_wshedfc_name,
                   shed_stat_table, messages, steps, outcome>>

\* variant: the loop ends without its progress message
ReclassDone_quiet ==
    /\ pc = "reclass"
    /\ ucurs > Len(nlcd_poly)
    /\ pc' = "summarize"
    /\ UNCHANGED <<clock, today, reader, class_map, wshed_poly, nlcd_poly,
                   ucurs, artifacts, summary, shed_stats_table, input_wshedfc_name,
                   shed_stat_table, messages, steps, exc, outcome>>

\* line 112: the cursor is exhausted
ReclassDone ==
    /\ pc = "reclass"
    /\ ucurs > Len(nlcd_poly)
    /\ messages' = AddMessage(messages, MsgGrouped)
    /\ pc' = "summarize"
    /\ UNCHANGED <<clock, today, reader, class_map, wshed_poly, nlcd_poly,
                   ucurs, artifacts, summary, shed_stats_table, input_wshedfc_name,
                   shed_stat_table, steps, exc, outcome>>

\* analysis.SummarizeWithin as the script calls it: the output feature class has
\* one row per retained watershed, the group table one row per (watershed, group)
SummarizeWithin(in_polygons, in_sum_features, keep_all_polygons, group_field) ==
    LET groups(w) == {in_sum_features[i].new :
                        i \in {j \in DOMAIN in_sum_features : w \in in_sum_features[j].covers}}
    IN [fc |-> IF keep_all_polygons = "KEEP_ALL"
               THEN in_polygons
               ELSE {w \in in_polygons : groups(w) # {}},
        table |-> UNION {{<<w, g>> : g \in groups(w)} : w \in in_polygons}]

\* lines 117-129
SummarizeWithinStep ==
    /\ pc = "summarize"
    /\ steps' = Append(steps, "SummarizeWithin")
    /\ \/ /\ summary' = SummarizeWithin(wshed_poly, nlcd_poly, KeepAllPolygons, new_class_field)
          /\ artifacts' = artifacts \cup {"Temp_Watershed_Summary", "Temp_Watershed_Stat_Table"}
          /\ messages' = AddMessage(messages, MsgComputed)
          /\ pc' = "join"
          /\ UNCHANGED exc
       \/ /\ Raise(ExecuteError("line 117"))
          /\ UNCHANGED <<summary, artifacts, messages>>
    /\ UNCHANGED <<clock, today, reader, class_map, wshed_poly, nlcd_poly,
                   ucurs, shed_stats_table, input_wshedfc_name,
                   shed_stat_table, outcome>>

\* management.AddJoin on Join_ID, as materialised by a later copy: one row per
\* match, and with KEEP_ALL one row of nulls for a watershed without a match
AddJoin(in_layer, join_table, join_type) ==
    LET matches(w) == {r \in join_table : r[1] = w}
    IN UNION {IF matches(w) # {} THEN matches(w)
              ELSE IF join_type = "KEEP_ALL" THEN {<<w, Null>>} ELSE {} : w \in in_layer}

\* lines 134-138
AddJoinStep ==
    /\ pc = "join"
    /\ steps' = Append(steps, "AddJoin")
    /\ \/ /\ shed_stats_table' = AddJoin(summary.fc, summary.table, JoinType)
          /\ pc' = "describe"
          /\ UNCHANGED exc
       \/ /\ Raise(ExecuteError("line 134"))
          /\ UNCHANGED shed_stats_table
    /\ UNCHANGED <<clock, today, reader, class_map, wshed_poly, nlcd_poly,
                   ucurs, artifacts, summary, input_wshedfc_name,
                   shed_stat_table, messages, outcome>>

\* line 146: ap.da.Describe(wshed_poly)['baseName']
Describe ==
    /\ pc = "describe"
    /\ steps' = Append(steps, "Describe")
    /\ \/ /\ \E b \in BaseNames : input_wshedfc_name' = b
          /\ pc' = "export"
          /\ UNCHANGED exc
       \/ /\ Raise([etype |-> "KeyError", loc |-> "line 146", evalue |-> "baseName"])
          /\ UNCHANGED input_wshedfc_name
       \/ /\ Raise(ExecuteError("line 146"))
          /\ UNCHANGED input_wshedfc_name
    /\ UNCHANGED <<clock, today, reader, class_map, wshed_poly, nlcd_poly,
                   ucurs, artifacts, summary, shed_stats_table,
                   shed_stat_table, messages, outcome>>

\* line 150
OutName(basename, date) == "Watershed_" \o basename \o "_Statistics_" \o date

WshedCols == {"OBJECTID", "Shape", "Name"}
SummaryCols == WshedCols \cup {"sum_Area_SQUAREFEET", "Polygon_Count", "Join_ID"}
StatCols == {"OBJECTID", "Join_ID", new_class_field, "sum_Area_SQUAREFEET",
             "Polygon_Count", "PercentArea"}
\* a joined field whose name is already taken gets the suffix _1
JoinedCols(left, right) == left \cup {IF c \in left THEN c \o "_1" ELSE c : c \in right}

\* lines 147-151
FeatureClassToFeatureClass ==
    /\ pc = "export"
    /\ steps' = Append(steps, "FeatureClassToFeatureClass")
    /\ \/ /\ shed_stat_table' = [created |-> TRUE,
                                 name |-> OutName(input_wshedfc_name, today),
                                 cols |-> JoinedCols(SummaryCols, StatCols),
                                 rows |-> shed_stats_table]
          /\ artifacts' = artifacts \cup {OutName(input_wshedfc_name, today)}
          /\ messages' = AddMessage(messages, MsgGenerating)
          /\ pc' = "deletefield"
          /\ UNCHANGED exc
       \/ /\ Raise(ExecuteError("line 147"))
          /\ UNCHANGED <<shed_stat_table, artifacts, messages>>
    /\ UNCHANGED <<clock, today, reader, class_map, wshed_poly, nlcd_poly,
                   ucurs, summary, shed_stats_table, input_wshedfc_name, outcome>>

\* fields the geodatabase does not let DeleteField remove
RequiredFields == {"OBJECTID", "Shape"}

\* lines 154-159; the end of the try block
DeleteField ==
    /\ pc = "deletefield"
    /\ steps' = Append(steps, "DeleteField")
    /\ \/ /\ \E kept \in SUBSET (DropField \cap RequiredFields \cap shed_stat_table.cols) :
                shed_stat_table' =
                    [shed_stat_table EXCEPT !.cols = (@ \ DropField) \cup kept]
          /\ messages' = AddMessage(messages, MsgRemoving)
          /\ pc' = "done"
          /\ outcome' = "success"
          /\ UNCHANGED exc
       \/ /\ Raise(ExecuteError("line 154"))
          /\ UNCHANGED <<shed_stat_table, messages, outcome>>
    /\ UNCHANGED <<clock, today, reader, class_map, wshed_poly, nlcd_poly,
                   ucurs, artifacts, summary, shed_stats_table, input_wshedfc_name>>

\* variant: a handler that removes what the run has written so far
HandleKeyError_rollback ==
    /\ pc = "except"
    /\ exc.etype = "KeyError"
    /\ messages' = AddError(messages, MsgUnmapped)
    /\ artifacts' = {}
    /\ nlcd_poly' = <<>>
    /\ pc' = "done"
    /\ outcome' = "unmapped"
    /\ UNCHANGED <<clock, today, reader, class_map, wshed_poly,
                   ucurs, summary, shed_stats_table, input_wshedfc_name,
                   shed_stat_table, steps, exc>>

\* lines 161-163
HandleKeyError ==
    /\ pc = "except"
    /\ exc.etype = "KeyError"
    /\ messages' = AddError(messages, MsgUnmapped)
    /\ pc' = "done"
    /\ outcome' = "unmapped"
    /\ UNCHANGED <<clock, today, reader, class_map, wshed_poly, nlcd_poly,
                   ucurs, artifacts, summary, shed_stats_table, input_wshedfc_name,
                   shed_stat_table, steps, exc>>

\* line 167
ErrMsg(e) == "Traceback Info:\n" \o e.loc \o "\n" \o e.etype \o ": " \o e.evalue

\* variant: a catch-all that swallows the exception (except: pass)
HandleOther_silent ==
    /\ pc = "except"
    /\ exc.etype # "KeyError"
    /\ pc' = "done"
    /\ outcome' = "unclassified"
    /\ UNCHANGED <<clock, today, reader, class_map, wshed_poly, nlcd_poly,
                   ucurs, artifacts, summary, shed_stats_table, input_wshedfc_name,
                   shed_stat_table, messages, steps, exc>>

\* lines 164-168
HandleOther ==
    /\ pc = "except"
    /\ exc.etype # "KeyError"
    /\ messages' = AddError(messages, ErrMsg(exc))
    /\ pc' = "done"
    /\ outcome' = "unclassified"
    /\ UNCHANGED <<clock, today, reader, class_map, wshed_poly, nlcd_poly,
                   ucurs, artifacts, summary, shed_stats_table, input_wshedfc_name,
                   shed_stat_table, steps, exc>>

\* the calendar day changes while the script runs
Tick ==
    /\ pc # "done"
    /\ clock < Len(Days)
    /\ clock' = clock + 1
    /\ UNCHANGED <<pc, today, reader, class_map, wshed_poly, nlcd_poly,
                   ucurs, artifacts, summary, shed_stats_table, input_wshedfc_name,
                   shed_stat_table, messages, steps, exc, outcome>>

Next ==
    \/ Startup
    \/ OpenCsv
    \/ LoadMapping
    \/ CloseCsv
    \/ Buffer
    \/ Clip
    \/ RasterToPolygon
    \/ AddField
    \/ UpdateCursor
    \/ ReclassRow
    \/ ReclassDone
    \/ SummarizeWithinStep
    \/ AddJoinStep
    \/ Describe
    \/ FeatureClassToFeatureClass
    \/ DeleteField
    \/ HandleKeyError
    \/ HandleOther
    \/ Tick

Spec == Init /\ [][Next]_vars

-----------------------------------------------------------------------------
(* Properties *)

IsInfo(m) == m.kind = "info"
IsError(m) == m.kind = "error"
Infos == SelectSeq(messages, IsInfo)
Errors == SelectSeq(messages, IsError)
Last(q) == q[Len(q)]

HasUnmapped == \E i \in DOMAIN nlcd_poly : nlcd_poly[i].old \notin DOMAIN class_map
FinalTables == {a \in artifacts : a \notin {"Temp_NLCD_WShed_Clip", "Temp_NLCD_Polygon",
                                            "Temp_Watershed_Summary", "Temp_Watershed_Stat_Table"}}
AllSteps == <<"Buffer", "Clip", "RasterToPolygon", "AddField", "UpdateCursor",
              "SummarizeWithin", "AddJoin", "Describe", "FeatureClassToFeatureClass",
              "DeleteField">>
SixMessages == <<MsgClipped, MsgConverted, MsgGrouped, MsgComputed, MsgGenerating,
                 MsgRemoving>>
Bookkeeping == {"sum_Area_SQUAREFEET", "Polygon_Count", "Join_ID", "Join_ID_1",
                "sum_Area_SQUAREFEET_1", "Polygon_Count_1"}
ExpectedYmd == <<"20210908", "20211231">>

C2_ThreeOutcomes ==
    pc = "done" =>
        \/ outcome = "success" /\ steps = AllSteps /\ Errors = <<>>
        \/ outcome = "unmapped" /\ Errors = <<[kind |-> "error", text |-> MsgUnmapped]>>
        \/ outcome = "unclassified" /\ Errors = <<[kind |-> "error", text |-> ErrMsg(exc)]>>

\* C2 amended: every run ends in exactly one of four outcomes: success with
\* all steps done and no error reported, the unmapped-class report, the
\* unclassified report, or an exception of the mapping load that is raised
\* outside the wrapper, before any step 2-7, and reported in neither shape.
C2_FourOutcomes ==
    pc = "done" =>
        \/ /\ outcome = "success"
           /\ steps = AllSteps
           /\ Errors = <<>>
        \/ /\ outcome = "unmapped"
           /\ Errors = <<[kind |-> "error", text |-> MsgUnmapped]>>
           /\ Len(steps) >= 1
        \/ /\ outcome = "unclassified"
           /\ Errors = <<[kind |-> "error", text |-> ErrMsg(exc)]>>
           /\ Len(steps) >= 1
        \/ /\ outcome = "uncaught"
           /\ exc.etype \in {"FileNotFoundError", "IndexError"}
           /\ exc.loc \in {"line 62", "line 64"}
           /\ steps = <<>>
           /\ messages = <<>>

C2_Witness ==
    /\ pc = "done"
    /\ outcome = "uncaught"
    /\ exc.etype = "IndexError"
    /\ Len(reader) = 2

\* C3: the unmapped-class message is reported if and only if the lookup of
\* the reclassification fails; every other exception of steps 2-7 is reported
\* as the unclassified failure with location, type name and message.
C3_UnmappedIffLookup ==
    (pc = "done" /\ outcome # "uncaught") =>
        /\ (outcome = "unmapped") <=> (exc.etype = "KeyError" /\ exc.loc = "line 110")
        /\ (exc # NoExc /\ exc.loc # "line 110") =>
              /\ outcome = "unclassified"
              /\ Last(messages) = [kind |-> "error", text |-> ErrMsg(exc)]

\* C4 as stated: for a file whose rows each have two fields, every row's
\* original label maps to that row's grouped label.
C4_EveryRow ==
    (pc = "close" /\ \A i \in DOMAIN reader : Len(reader[i]) = 2) =>
        \A i \in DOMAIN reader :
            /\ reader[i][1] \in DOMAIN class_map
            /\ class_map[reader[i][1]] = reader[i][2]

\* C4 amended: for a file whose rows each have two fields, the mapping's keys
\* are the original labels of the rows, and every row whose original label is
\* not repeated in a later row maps to that row's grouped label (of the rows
\* that share a label the last one wins).
C4_LastRowWins ==
    (pc = "close" /\ \A i \in DOMAIN reader : Len(reader[i]) = 2) =>
        /\ DOMAIN class_map = {reader[i][1] : i \in DOMAIN reader}
        /\ \A i \in DOMAIN reader :
              (\A j \in DOMAIN reader : j > i => reader[j][1] # reader[i][1])
                  => class_map[reader[i][1]] = reader[i][2]

\* a label repeated with two different groups
C4_Witness ==
    /\ pc = "close"
    /\ Len(reader) = 2
    /\ Len(reader[1]) = 2 /\ Len(reader[2]) = 2
    /\ reader[1][1] = reader[2][1]
    /\ reader[1][2] # reader[2][2]
    /\ class_map[reader[1][1]] = reader[2][2]

\* C5 as stated: a row with fewer or with more than two fields fails the
\* loader, no step runs and no mapping is used.
C5_NotTwoFieldsFails ==
    (pc \notin {"start", "open", "load"} /\ \E i \in DOMAIN reader : Len(reader[i]) # 2) =>
        /\ outcome = "uncaught"
        /\ steps = <<>>
        /\ class_map = EmptyMap

\* C5 amended: a row with fewer than two fields fails the loader with an
\* uncaught IndexError, no geoprocessing step runs and no mapping is used; a
\* file whose rows all have two or more fields loads, the fields after the
\* second being ignored.
C5_ShortRowFails ==
    /\ (pc \notin {"start", "open", "load"} /\ \E i \in DOMAIN reader : Len(reader[i]) < 2) =>
          /\ pc = "done"
          /\ outcome = "uncaught"
          /\ exc.etype = "IndexError"
          /\ steps = <<>>
          /\ artifacts = {}
          /\ messages = <<>>
          /\ class_map = EmptyMap
    /\ pc = "close" =>
          /\ exc = NoExc
          /\ \A i \in DOMAIN reader : Len(reader[i]) >= 2
          /\ \A i \in DOMAIN reader : reader[i][1] \in DOMAIN class_map

\* a short row after a well-formed one
C5_Witness ==
    /\ pc = "done"
    /\ outcome = "uncaught"
    /\ Len(reader) = 2
    /\ Len(reader[1]) = 2
    /\ Len(reader[2]) < 2

\* C6: after a successful run the final table has none of the bookkeeping
\* columns; they are in the table as it is materialized from the join and are
\* removed only after that.
C6_NoBookkeeping ==
    /\ outcome = "success" =>
          /\ shed_stat_table.created
          /\ shed_stat_table.cols \cap Bookkeeping = {}
    /\ ~shed_stat_table.created =>
          /\ shed_stat_table.cols = {}
          /\ \A i \in DOMAIN steps : steps[i] # "DeleteField"
    /\ (shed_stat_table.created /\ outcome # "success") =>
          Bookkeeping \subseteq shed_stat_table.cols

C6_Witness ==
    /\ outcome = "success"
    /\ {"PercentArea", new_class_field, "Name"} \subseteq shed_stat_table.cols
    /\ Last(steps) = "DeleteField"

\* C7: on success the final table is named Watershed_<B>_Statistics_<D>, B the
\* base name of the watershed dataset and D the date at startup as YYYYMMDD;
\* the date is taken once, at startup, and not again.
C7_OutName ==
    /\ [][(pc = "start" /\ pc' # "start") => today' = ExpectedYmd[clock]]_vars
    /\ [][pc # "start" => today' = today]_vars
    /\ [](outcome = "success" =>
            /\ shed_stat_table.name =
                 "Watershed_" \o input_wshedfc_name \o "_Statistics_" \o today
            /\ shed_stat_table.name \in
                 {"Watershed_Sub1_Statistics_20210908",
                  "Watershed_Sub1_Statistics_20211231",
                  "Watershed_Example_Watershed_Statistics_20210908",
                  "Watershed_Example_Watershed_Statistics_20211231"}
            /\ FinalTables = {shed_stat_table.name})

\* the date changed during the run
C7_Witness ==
    /\ outcome = "success"
    /\ shed_stat_table.name = "Watershed_Sub1_Statistics_20210908"
    /\ clock = 2

\* C8 as stated: a successful run emits exactly three progress messages and
\* no error message.
C8_ThreeMessages ==
    outcome = "success" => (Len(Infos) = 3 /\ Errors = <<>>)

\* C8 amended: a successful run emits exactly six progress messages, one
\* after each of clip, vectorize, reclassify, summarize, export and field
\* removal, and no error message.
C8_SixMessages ==
    outcome = "success" =>
        messages = [i \in 1..6 |-> [kind |-> "info", text |-> SixMessages[i]]]

C8_Witness ==
    /\ outcome = "success"
    /\ Len(nlcd_poly) = 2

\* C9: on success the final table has at least one row for each input
\* watershed, also for a watershed no land-cover polygon intersects.
C9_KeepAll ==
    outcome = "success" =>
        \A w \in wshed_poly : \E r \in shed_stat_table.rows : r[1] = w

\* one watershed with land cover, one without
C9_Witness ==
    /\ outcome = "success"
    /\ wshed_poly = {"w1", "w2"}
    /\ \E i \in DOMAIN nlcd_poly : "w1" \in nlcd_poly[i].covers
    /\ \A i \in DOMAIN nlcd_poly : "w2" \notin nlcd_poly[i].covers
    /\ <<"w2", Null>> \in shed_stat_table.rows

StepAt(loc) ==
    CASE loc = "line 77" -> "Buffer"
      [] loc = "line 82" -> "Clip"
      [] loc = "line 92" -> "RasterToPolygon"
      [] loc = "line 101" -> "AddField"
      [] loc \in {"line 108", "line 110", "line 111"} -> "UpdateCursor"
      [] loc = "line 117" -> "SummarizeWithin"
      [] loc = "line 134" -> "AddJoin"
      [] loc = "line 146" -> "Describe"
      [] loc = "line 147" -> "FeatureClassToFeatureClass"
      [] loc = "line 154" -> "DeleteField"
      [] OTHER -> "none"

\* what the statements before the k-th leave behind
TempsBefore(k) ==
    (IF k > 2 THEN {"Temp_NLCD_WShed_Clip"} ELSE {})
    \cup (IF k > 3 THEN {"Temp_NLCD_Polygon"} ELSE {})
    \cup (IF k > 6 THEN {"Temp_Watershed_Summary", "Temp_Watershed_Stat_Table"} ELSE {})
InfosBefore(k) ==
    (IF k > 2 THEN 1 ELSE 0) + (IF k > 3 THEN 1 ELSE 0) + (IF k > 5 THEN 1 ELSE 0)
    + (IF k > 6 THEN 1 ELSE 0) + (IF k > 9 THEN 1 ELSE 0)

\* C10: the first failure of steps 2-7 halts the run without rollback: the
\* failed statement is the last one started, only the progress messages and
\* artifacts of the statements before it exist, the error report is the last
\* event, nothing happens after it, and what was written stays: the clipped
\* raster, the polygons, and the grouped labels of the polygons the cursor
\* passed before the failure.
C10_HaltNoRollback ==
    /\ [][pc # "done"]_vars
    /\ [][(pc = "except" /\ pc' = "done") =>
            /\ artifacts' = artifacts
            /\ nlcd_poly' = nlcd_poly
            /\ shed_stat_table' = shed_stat_table
            /\ steps' = steps
            /\ SubSeq(messages', 1, Len(messages)) = messages
            /\ Len(messages') = Len(messages) + 1]_vars
    /\ []((pc = "done" /\ outcome \in {"unmapped", "unclassified"}) =>
            LET k == Len(steps) IN
            /\ k >= 1
            /\ steps = SubSeq(AllSteps, 1, k)
            /\ steps[k] = StepAt(exc.loc)
            /\ Last(messages).kind = "error"
            /\ Len(Errors) = 1
            /\ Len(Infos) = InfosBefore(k)
            /\ artifacts \ FinalTables = TempsBefore(k)
            /\ shed_stat_table.created <=> k = 10
            /\ FinalTables = (IF k = 10 THEN {shed_stat_table.name} ELSE {})
            /\ k >= 5 =>
                 \A i \in DOMAIN nlcd_poly :
                    nlcd_poly[i].new = (IF i < ucurs THEN class_map[nlcd_poly[i].old] ELSE Null))

\* the run failed on the second polygon; the label of the first stays written
C10_Witness ==
    /\ pc = "done"
    /\ outcome = "unmapped"
    /\ ucurs = 2
    /\ nlcd_poly[1].new \in GroupNames
    /\ nlcd_poly[2].new = Null
    /\ artifacts = {"Temp_NLCD_WShed_Clip", "Temp_NLCD_Polygon"}
====
